---- MODULE Spec2Model ----
(***************************************************************************)
(* The generation orchestrator (App: handleGenerate, handleClearScene,     *)
(* handleExportSTL, handleViewChange), the prompt form (InputPanel) and    *)
(* the progressive renderer (Viewer3D) as one state machine.               *)
(*                                                                         *)
(* A step is one browser task: an event handler, a timer callback, the     *)
(* continuation of handleGenerate after its await, or React's run of the   *)
(* passive effects of the last commit.  The time between tasks is not      *)
(* modelled: any armed timer may expire at any moment.                     *)
(*                                                                         *)
(* Spec and FairSpec run that machine.  ViewSpec follows the camera        *)
(* (CameraController) through view commands.  ParseSpec, NormSpec,         *)
(* PayloadSpec and SpeedSpec each apply one function of the generation     *)
(* path to every input of a bounded domain: the response text through      *)
(* cleanAndParseJSON, a list of parts (NormSpec) and a payload whose parts *)
(* may lack properties (PayloadSpec) through normalizeModelData, a part    *)
(* count through the build speed formula.                                  *)
(***************************************************************************)
EXTENDS Integers, Sequences, FiniteSets, TLC

\* ---------------------------------------------------------------- bounds
MaxRequests == 2     \* submissions per page load
MaxParts    == 2     \* parts of a generated Model
MaxExports  == 1     \* STL exports whose 100 ms restore timer is pending
MaxViewCmds == 1     \* view commands per page load
MaxCameraCmds == 2   \* view commands per page load where the camera is followed
MaxTextLen  == 5     \* tokens of a response text
MaxPartsLength == 60 \* parts.length of a payload whose build speed is derived

\* ------------------------------------------------------------- constants
InitialBuildingSpeed == 150
SingleSpeed          == 100
SpeedCap             == 500
SpeedBudget          == 2000
distance             == 15

Prompts == {"", "chair"}      \* "" stands for a prompt that trims to nothing

ViewModes == {"ISO", "TOP", "BOTTOM", "FRONT", "SIDE"}

\* What the awaited generate3DModel call of a request with a credential can
\* come back with.  "model" is a parsed payload whose parts is an array.
FailKinds == {"serviceError", "emptyResponse", "unparseable", "partsNotArray",
              "partsMissing"}
Outcomes  == FailKinds \cup {"partsFalsy", "model"}

VARIABLES
    model,              \* App: useState<GeneratedModel | null>
    generationState,    \* App: useState<GenerationState>
    buildingSpeed,      \* App: useState(150)
    viewState,          \* App: useState({mode, t})
    intervalRef,        \* App: useRef<number | null>, 0 is null
    intervals,          \* armed setInterval timers: id -> stepIdx of the closure
    pending,            \* handleGenerate invocations suspended at their await
    nextReq,            \* next request / interval / Model reference id
    exportTimers,       \* pending restore timeouts of handleExportSTL (prevStatus)
    visiblePartsCount,  \* Viewer3D: useState(0)
    revealTimer,        \* Viewer3D: the armed one-shot timeout's delay, 0 if none
    effectDeps,         \* Viewer3D: the props/state the effects last ran with
    crashed,            \* a render threw: the error boundary replaced the tree
    resolvedSinceStart, \* history: a request resolved and none started since
    elapsed,            \* history: reveal timer expiries since the Model was set
    log,                \* the logGeneration calls of the last task, in order
    controls,           \* CameraController: useThree(state => state.controls) is set
    cameraPosition,     \* camera.position
    cameraTarget,       \* controls.target
    cameraDeps,         \* CameraController: what its effect last ran with
    recomputes,         \* history: runs of the effect that placed the camera
    viewCmds,           \* history: the view commands issued while controls is set
    fnInput,            \* the argument of the function a function specification applies
    fnOutput            \* its result, <<>> before the call

vars == <<model, generationState, buildingSpeed, viewState, intervalRef,
          intervals, pending, nextReq, exportTimers, visiblePartsCount,
          revealTimer, effectDeps, crashed, resolvedSinceStart, elapsed, log,
          controls, cameraPosition, cameraTarget, cameraDeps, recomputes, viewCmds,
          fnInput, fnOutput>>

\* the state of the orchestrator, the prompt form and the reveal sequence
appVars == <<model, generationState, buildingSpeed, intervalRef, intervals, pending,
             nextReq, exportTimers, visiblePartsCount, revealTimer, effectDeps,
             crashed, resolvedSinceStart, elapsed>>

cameraVars == <<controls, cameraPosition, cameraTarget, cameraDeps, recomputes>>

fnVars == <<fnInput, fnOutput>>

\* ------------------------------------------------------------ data model
\* A Model is identified by the request that produced it (object identity);
\* n is parts.length; list is FALSE when parts is a falsy non-array value.
InitialCameraPosition == <<10, 10, 10>>

Origin == <<0, 0, 0>>

NoModel == [ref |-> 0, n |-> 0, list |-> TRUE]

HasModel == model # NoModel

IdleState == [isGenerating |-> FALSE, progress |-> 0, status |-> "IDLE"]

InitializingState ==
    [isGenerating |-> TRUE, progress |-> 0, status |-> "INITIALIZING GENERATOR..."]

CompleteStateStillGenerating ==
    [isGenerating |-> TRUE, progress |-> 100, status |-> "RENDER COMPLETE"]

CompleteState ==
    [isGenerating |-> FALSE, progress |-> 100, status |-> "RENDER COMPLETE"]

ErrorState == [isGenerating |-> FALSE, progress |-> 0, status |-> "ERROR"]

steps ==
    << [pct |-> 15, msg |-> "ANALYZING REQUIREMENTS..."],
       [pct |-> 35, msg |-> "DECOMPOSING GEOMETRY..."],
       [pct |-> 55, msg |-> "CALCULATING DIMENSIONS..."],
       [pct |-> 85, msg |-> "ASSEMBLING PARTS..."] >>

Min(a, b) == IF a < b THEN a ELSE b

\* ------------------------------------------------------- progress ticker
clearInterval(tm, id) == [i \in (DOMAIN tm) \ {id} |-> tm[i]]

setInterval(tm, id) == [i \in (DOMAIN tm) \cup {id} |-> IF i = id THEN 0 ELSE tm[i]]

CancelOnStartNever(tm, ref) == tm

\* handleGenerate: if (intervalRef.current) clearInterval(intervalRef.current)
CancelOnStart(tm, ref) == IF ref # 0 THEN clearInterval(tm, ref) ELSE tm

CancelOnResolveNever(tm, ref) == tm

\* the same statement in the try and in the catch block
CancelOnResolve(tm, ref) == IF ref # 0 THEN clearInterval(tm, ref) ELSE tm

FinalizeErrorKeepsFlag(gs) == [gs EXCEPT !.progress = 0, !.status = "ERROR"]

\* catch block: setGenerationState({isGenerating: false, progress: 0, status: 'ERROR'})
FinalizeError(gs) == ErrorState

PartCount(m) == IF m.list /\ m.n # 0 THEN m.n ELSE 1

\* logGeneration(prompt, generatedData.name, partCount); the name of a payload
\* stands for the payload, so it is the reference of the Model
LogEntry(prompt, m) ==
    [prompt |-> prompt, modelName |-> m.ref, partCount |-> PartCount(m)]

BuildSpeedNoSingle(partCount) == Min(SpeedCap, SpeedBudget \div partCount)

BuildSpeedUncapped(partCount) ==
    IF partCount = 1 THEN SingleSpeed ELSE SpeedBudget \div partCount

BuildSpeedAtLeastCap(partCount) ==
    IF partCount = 1 THEN SingleSpeed
    ELSE IF SpeedCap >= SpeedBudget \div partCount THEN SpeedCap
    ELSE SpeedBudget \div partCount

\* speed = partCount === 1 ? 100 : Math.min(500, 2000 / partCount), floored
BuildSpeed(partCount) ==
    IF partCount = 1 THEN SingleSpeed ELSE Min(SpeedCap, SpeedBudget \div partCount)

\* ------------------------------------------------------------- Viewer3D
IsVisibleInclusive(index, count) == index <= count

\* isVisible={index < visiblePartsCount}, index from 0
IsVisible(index, count) == index < count

VisibleParts == {i \in 0..(model.n - 1) : IsVisible(i, visiblePartsCount)}

\* the last commit's effects have not run yet
PendingEffects ==
    effectDeps # [model |-> model, count |-> visiblePartsCount, speed |-> buildingSpeed]

\* the Model of the last commit is not the one the reset effect last ran for
ModelJustReplaced == effectDeps.model # model

ArmRevealTimerOnce(m, count, speed) ==
    IF m # NoModel /\ count = 0 /\ count < m.n THEN speed ELSE 0

ArmRevealTimerInitialSpeed(m, count, speed) ==
    IF m # NoModel /\ m.list /\ count < m.n THEN InitialBuildingSpeed ELSE 0

\* second effect: if (!model) return; if (count < parts.length) setTimeout(..., buildingSpeed)
ArmRevealTimer(m, count, speed) ==
    IF m # NoModel /\ m.list /\ count < m.n THEN speed ELSE 0

\* Canvas camera={{ position: [10, 10, 10] }}; OrbitControls starts with the
\* target at the origin and registers itself as state.controls after the first
\* commit, so the first run of the CameraController effect returns early
CameraInit ==
    /\ controls = FALSE
    /\ cameraPosition = InitialCameraPosition
    /\ cameraTarget = Origin
    /\ cameraDeps = [viewState |-> [mode |-> "ISO", t |-> 0], controls |-> FALSE]
    /\ recomputes = 0
    /\ viewCmds = <<>>

AppInit ==
    /\ model = NoModel
    /\ generationState = IdleState
    /\ buildingSpeed = InitialBuildingSpeed
    /\ intervalRef = 0
    /\ intervals = <<>>
    /\ pending = {}
    /\ nextReq = 1
    /\ exportTimers = <<>>
    /\ visiblePartsCount = 0
    /\ revealTimer = 0
    /\ effectDeps = [model |-> NoModel, count |-> 0, speed |-> InitialBuildingSpeed]
    /\ crashed = FALSE
    /\ resolvedSinceStart = FALSE
    /\ elapsed = 0
    /\ log = <<>>

Init ==
    /\ AppInit
    /\ viewState = [mode |-> "ISO", t |-> 0]
    /\ CameraInit
    /\ fnInput = <<>>
    /\ fnOutput = <<>>

\* The event loop takes a new task only once the passive effects of the last
\* commit have run, and nothing runs in a tree the error boundary replaced.
Ready == ~crashed /\ ~PendingEffects

ViewerUnchanged == UNCHANGED <<visiblePartsCount, revealTimer, effectDeps>>

\* ------------------------------------------------------------------ App
\* handleGenerate up to its await; without a credential generate3DModel
\* rejects before any suspension and the catch block runs in the same task.
HandleGenerate(prompt, hasKey) ==
    LET id    == nextReq
        armed == setInterval(CancelOnStart(intervals, intervalRef), id)
    IN  /\ nextReq' = nextReq + 1
        /\ intervalRef' = id
        /\ model' = NoModel
        /\ elapsed' = IF model # NoModel THEN 0 ELSE elapsed
        /\ IF hasKey
           THEN /\ generationState' = InitializingState
                /\ intervals' = armed
                /\ pending' = pending \cup {[id |-> id, prompt |-> prompt]}
                /\ resolvedSinceStart' = FALSE
           ELSE /\ generationState' = FinalizeError(InitializingState)
                /\ intervals' = CancelOnResolve(armed, id)
                /\ pending' = pending
                /\ resolvedSinceStart' = TRUE
        /\ log' = <<>>
        /\ UNCHANGED <<buildingSpeed, viewState, exportTimers, crashed, viewCmds,
                   cameraVars, fnVars>>
        /\ ViewerUnchanged

\* InputPanel.handleSubmit
HandleSubmit(prompt, hasKey) ==
    /\ Ready
    /\ nextReq <= MaxRequests
    /\ prompt # ""
    /\ ~generationState.isGenerating
    /\ HandleGenerate(prompt, hasKey)

\* the setInterval callback of the request that armed timer id
ProgressTick(id) ==
    /\ Ready
    /\ id \in DOMAIN intervals
    /\ IF intervals[id] < Len(steps)
       THEN /\ generationState' =
                  [generationState EXCEPT !.progress = steps[intervals[id] + 1].pct,
                                          !.status = steps[intervals[id] + 1].msg]
            /\ intervals' = [intervals EXCEPT ![id] = @ + 1]
       ELSE UNCHANGED <<generationState, intervals>>
    /\ log' = <<>>
    /\ UNCHANGED <<model, buildingSpeed, viewState, intervalRef, pending, nextReq,
                   exportTimers, crashed, resolvedSinceStart, elapsed, viewCmds,
                   cameraVars, fnVars>>
    /\ ViewerUnchanged

\* handleGenerate after its await, for what generate3DModel came back with
Resolve(req, outcome, n) ==
    /\ Ready
    /\ req \in pending
    /\ pending' = pending \ {req}
    /\ resolvedSinceStart' = TRUE
    /\ intervals' = CancelOnResolve(intervals, intervalRef)
    /\ IF outcome \in {"model", "partsFalsy"}
       THEN LET m == [ref |-> req.id,
                      n |-> IF outcome = "model" THEN n ELSE 0,
                      list |-> outcome = "model"]
            IN  /\ generationState' = CompleteState
                /\ buildingSpeed' = BuildSpeed(PartCount(m))
                /\ model' = m
                /\ elapsed' = 0
                /\ log' = <<LogEntry(req.prompt, m)>>
                \* model.parts.map is not a function: the render throws
                /\ crashed' = ~m.list
       ELSE \* "partsMissing" throws at generatedData.parts.length, after the
            \* RENDER COMPLETE update of the same task; the others reject the await
            /\ generationState' = FinalizeError(generationState)
            /\ log' = <<>>
            /\ UNCHANGED <<buildingSpeed, model, elapsed, crashed>>
    /\ UNCHANGED <<viewState, intervalRef, nextReq, exportTimers, viewCmds,
                   cameraVars, fnVars>>
    /\ ViewerUnchanged

HandleClearScene ==
    /\ Ready
    /\ model' = NoModel
    /\ elapsed' = IF model # NoModel THEN 0 ELSE elapsed
    /\ generationState' = IdleState
    /\ log' = <<>>
    /\ UNCHANGED <<buildingSpeed, viewState, intervalRef, intervals, pending, nextReq,
                   exportTimers, crashed, resolvedSinceStart, viewCmds,
                   cameraVars, fnVars>>
    /\ ViewerUnchanged

HandleExportSTL ==
    /\ Ready
    /\ HasModel
    /\ Len(exportTimers) < MaxExports
    /\ exportTimers' = Append(exportTimers, generationState.status)
    /\ generationState' = [generationState EXCEPT !.status = "EXPORTING STL..."]
    /\ log' = <<>>
    /\ UNCHANGED <<model, buildingSpeed, viewState, intervalRef, intervals, pending,
                   nextReq, crashed, resolvedSinceStart, elapsed, viewCmds,
                   cameraVars, fnVars>>
    /\ ViewerUnchanged

\* the 100 ms timeout of handleExportSTL
ExportRestore ==
    /\ Ready
    /\ exportTimers # <<>>
    /\ generationState' = [generationState EXCEPT !.status = Head(exportTimers)]
    /\ exportTimers' = Tail(exportTimers)
    /\ log' = <<>>
    /\ UNCHANGED <<model, buildingSpeed, viewState, intervalRef, intervals, pending,
                   nextReq, crashed, resolvedSinceStart, elapsed, viewCmds,
                   cameraVars, fnVars>>
    /\ ViewerUnchanged

\* handleViewChange: setViewState({ mode: viewMode, t: Date.now() })
ViewChange(viewMode) ==
    /\ viewState' = [mode |-> viewMode, t |-> viewState.t + 1]
    /\ viewCmds' = IF controls THEN Append(viewCmds, viewMode) ELSE viewCmds
    /\ log' = <<>>
    /\ UNCHANGED <<appVars, cameraVars, fnVars>>

\* a click in the VIEW menu; what the camera makes of it is left to ViewSpec
HandleViewChange(viewMode) ==
    /\ Ready
    /\ viewState.t < MaxViewCmds
    /\ ViewChange(viewMode)

\* ------------------------------------------------------------- Viewer3D
\* The passive effects of the last commit: the cleanup of the reveal effect,
\* the reset effect when model changed, the reveal effect with the count of
\* that commit; then the commit of the reset count.
FlushEffects ==
    /\ ~crashed
    /\ PendingEffects
    /\ revealTimer' = ArmRevealTimer(model, visiblePartsCount, buildingSpeed)
    /\ effectDeps' = [model |-> model, count |-> visiblePartsCount, speed |-> buildingSpeed]
    /\ visiblePartsCount' = IF ModelJustReplaced THEN 0 ELSE visiblePartsCount
    /\ log' = <<>>
    /\ UNCHANGED <<model, generationState, buildingSpeed, viewState, intervalRef,
                   intervals, pending, nextReq, exportTimers, crashed,
                   resolvedSinceStart, elapsed, viewCmds,
                   cameraVars, fnVars>>

\* the setTimeout callback of the reveal effect
RevealTick ==
    /\ Ready
    /\ revealTimer # 0
    /\ revealTimer' = 0
    /\ visiblePartsCount' = visiblePartsCount + 1
    /\ elapsed' = elapsed + 1
    /\ log' = <<>>
    /\ UNCHANGED <<model, generationState, buildingSpeed, viewState, intervalRef,
                   intervals, pending, nextReq, exportTimers, effectDeps, crashed,
                   resolvedSinceStart, viewCmds,
                   cameraVars, fnVars>>

\* ErrorBoundary.handleReload: window.location.reload()
Reload ==
    /\ crashed
    /\ model' = NoModel
    /\ generationState' = IdleState
    /\ buildingSpeed' = InitialBuildingSpeed
    /\ viewState' = [mode |-> "ISO", t |-> 0]
    /\ intervalRef' = 0
    /\ intervals' = <<>>
    /\ pending' = {}
    /\ nextReq' = 1
    /\ exportTimers' = <<>>
    /\ visiblePartsCount' = 0
    /\ revealTimer' = 0
    /\ effectDeps' = [model |-> NoModel, count |-> 0, speed |-> InitialBuildingSpeed]
    /\ crashed' = FALSE
    /\ resolvedSinceStart' = FALSE
    /\ elapsed' = 0
    /\ log' = <<>>
    /\ controls' = FALSE
    /\ cameraPosition' = InitialCameraPosition
    /\ cameraTarget' = Origin
    /\ cameraDeps' = [viewState |-> [mode |-> "ISO", t |-> 0], controls |-> FALSE]
    /\ recomputes' = 0
    /\ viewCmds' = <<>>
    /\ UNCHANGED fnVars

Next ==
    \/ \E p \in Prompts, k \in BOOLEAN : HandleSubmit(p, k)
    \/ \E id \in DOMAIN intervals : ProgressTick(id)
    \/ \E req \in pending, o \in Outcomes, n \in 0..MaxParts : Resolve(req, o, n)
    \/ HandleClearScene
    \/ HandleExportSTL
    \/ ExportRestore
    \/ \E v \in ViewModes : HandleViewChange(v)
    \/ FlushEffects
    \/ RevealTick
    \/ Reload

Spec == Init /\ [][Next]_vars

\* Timers expire and React runs the effects of a commit.
FairSpec == Spec /\ WF_vars(FlushEffects) /\ WF_vars(RevealTick)

\* ------------------------------------------------- cleanAndParseJSON
\* A response text is a sequence of tokens: "F" a code fence (three
\* backticks), "j" the word json (the tag of a fence, or prose elsewhere),
\* "w" a white-space character, and the JSON punctuation.
Chars == {"F", "j", "w", "{", "}", "[", "]", ","}

Texts == UNION {[1..n -> Chars] : n \in 0..MaxTextLen}

Closers == {"}", "]"}

MinOf(S) == CHOOSE x \in S : \A y \in S : x <= y

MaxOf(S) == CHOOSE x \in S : \A y \in S : y <= x

SubSeqOrEmpty(t, a, b) == IF a <= b THEN SubSeq(t, a, b) ELSE <<>>

\* \s* : the first position from p on that holds no white space
RECURSIVE SkipWs(_, _)
SkipWs(t, p) == IF p <= Len(t) /\ t[p] = "w" THEN SkipWs(t, p + 1) ELSE p

\* codeBlockRegex tried at position i: the fence, the optional tag, white
\* space, then the group from "{" lazily up to the first "}" that white
\* space and a fence follow. <<b, e>> are the ends of the group, <<>> no match.
CodeBlockAt(t, i) ==
    LET p    == IF i + 1 <= Len(t) /\ t[i + 1] = "j" THEN i + 2 ELSE i + 1
        b    == SkipWs(t, p)
        ends == {e \in (b + 1)..Len(t) :
                    /\ t[e] = "}"
                    /\ SkipWs(t, e + 1) <= Len(t)
                    /\ t[SkipWs(t, e + 1)] = "F"}
    IN  IF t[i] = "F" /\ b <= Len(t) /\ t[b] = "{" /\ ends # {}
        THEN <<b, MinOf(ends)>>
        ELSE <<>>

\* text.match(codeBlockRegex): the match at the leftmost position that has one
CodeBlockMatch(t) ==
    LET starts == {i \in 1..Len(t) : CodeBlockAt(t, i) # <<>>}
    IN  IF starts = {} THEN <<>> ELSE CodeBlockAt(t, MinOf(starts))

\* text.indexOf('{') and text.lastIndexOf('}'), 0 for -1
IndexOf(t, c) ==
    IF \E i \in 1..Len(t) : t[i] = c THEN MinOf({i \in 1..Len(t) : t[i] = c}) ELSE 0

LastIndexOf(t, c) ==
    IF \E i \in 1..Len(t) : t[i] = c THEN MaxOf({i \in 1..Len(t) : t[i] = c}) ELSE 0

BraceSpan(t) ==
    LET firstOpen == IndexOf(t, "{")
        lastClose == LastIndexOf(t, "}")
    IN  IF firstOpen # 0 /\ lastClose # 0 /\ lastClose > firstOpen
        THEN <<firstOpen, lastClose>>
        ELSE <<>>

ExtractSpanFirst(t) ==
    IF BraceSpan(t) # <<>>
    THEN [source |-> "span", from |-> BraceSpan(t)[1], to |-> BraceSpan(t)[2]]
    ELSE IF CodeBlockMatch(t) # <<>>
         THEN [source |-> "fence", from |-> CodeBlockMatch(t)[1],
               to |-> CodeBlockMatch(t)[2]]
         ELSE [source |-> "whole", from |-> 1, to |-> Len(t)]

\* steps 1 and 2: which part of the text becomes cleanText
Extract(t) ==
    IF CodeBlockMatch(t) # <<>>
    THEN [source |-> "fence", from |-> CodeBlockMatch(t)[1],
          to |-> CodeBlockMatch(t)[2]]
    ELSE IF BraceSpan(t) # <<>>
         THEN [source |-> "span", from |-> BraceSpan(t)[1], to |-> BraceSpan(t)[2]]
         ELSE [source |-> "whole", from |-> 1, to |-> Len(t)]

\* cleanText.replace(/,(\s*[}\]])/g, '$1'), scanning from position p
RECURSIVE StripTrailingCommas(_, _)
StripTrailingCommas(t, p) ==
    IF p > Len(t) THEN <<>>
    ELSE LET q == SkipWs(t, p + 1)
         IN  IF t[p] = "," /\ q <= Len(t) /\ t[q] \in Closers
             THEN SubSeq(t, p + 1, q) \o StripTrailingCommas(t, q + 1)
             ELSE <<t[p]>> \o StripTrailingCommas(t, p + 1)

\* JSON.parse on the tokens there are: a value is an empty object or an array
\* of values. The position after the value that starts at p, 0 for a syntax error.
RECURSIVE ParseValue(_, _), ParseElements(_, _)
ParseValue(t, p) ==
    IF p > Len(t) THEN 0
    ELSE LET q == SkipWs(t, p + 1)
         IN  CASE t[p] = "{" -> IF q <= Len(t) /\ t[q] = "}" THEN q + 1 ELSE 0
               [] t[p] = "[" -> IF q <= Len(t) /\ t[q] = "]" THEN q + 1
                                ELSE ParseElements(t, q)
               [] OTHER -> 0

ParseElements(t, p) ==
    LET v == ParseValue(t, p)
        q == SkipWs(t, v)
    IN  IF v = 0 \/ q > Len(t) THEN 0
        ELSE CASE t[q] = "]" -> q + 1
               [] t[q] = "," -> ParseElements(t, SkipWs(t, q + 1))
               [] OTHER -> 0

JSONParse(t) ==
    LET p == SkipWs(t, 1)
        v == ParseValue(t, p)
    IN  IF v # 0 /\ SkipWs(t, v) = Len(t) + 1
        THEN IF t[p] = "{" THEN "object" ELSE "array"
        ELSE "SyntaxError"

cleanAndParseJSON(text) ==
    LET ex        == Extract(text)
        cleanText == StripTrailingCommas(SubSeqOrEmpty(text, ex.from, ex.to), 1)
    IN  [source |-> ex.source, from |-> ex.from, to |-> ex.to,
         cleanText |-> cleanText, value |-> JSONParse(cleanText)]

\* generate3DModel and handleGenerate for a response text: how the request ends.
\* A parsed value of these tokens has no parts, normalizeModelData returns it
\* as it is and generatedData.parts.length throws a TypeError.
ResponseOutcome(text) ==
    IF text = <<>> THEN "emptyResponse"
    ELSE IF cleanAndParseJSON(text).value = "SyntaxError" THEN "unparseable"
         ELSE "partsMissing"

\* the message of the notification the request ends with
FailureMessage(outcome) ==
    CASE outcome = "emptyResponse" -> "No response from Gemini."
      [] outcome = "unparseable" ->
             "Could not interpret the model data. The design was too abstract."
      [] outcome = "partsMissing" ->
             "Cannot read properties of undefined (reading 'length')"

ParseInit ==
    /\ AppInit
    /\ viewState = [mode |-> "ISO", t |-> 0]
    /\ CameraInit
    /\ fnInput \in Texts
    /\ fnOutput = <<>>

\* one generation, from the response text the service returned
ParseResponse ==
    /\ fnOutput = <<>>
    /\ fnOutput' = [parse   |-> cleanAndParseJSON(fnInput),
                    outcome |-> ResponseOutcome(fnInput),
                    message |-> FailureMessage(ResponseOutcome(fnInput)),
                    model   |-> NoModel]
    /\ UNCHANGED <<appVars, log, viewState, cameraVars, viewCmds, fnInput>>

ParseSpec == ParseInit /\ [][ParseResponse]_vars

\* ------------------------------------------------ normalizeModelData
\* Numbers are exact fractions <<numerator, denominator>> in lowest terms
\* with a positive denominator.
RECURSIVE GCD(_, _)
GCD(a, b) == IF b = 0 THEN a ELSE GCD(b, a % b)

Abs(n) == IF n < 0 THEN -n ELSE n

Frac(n, d) ==
    LET g == GCD(Abs(n), Abs(d))
    IN  IF d > 0 THEN <<n \div g, d \div g>> ELSE <<(-n) \div g, (-d) \div g>>

R(n) == <<n, 1>>

RAdd(a, b) == Frac(a[1] * b[2] + b[1] * a[2], a[2] * b[2])

RSub(a, b) == Frac(a[1] * b[2] - b[1] * a[2], a[2] * b[2])

RMul(a, b) == Frac(a[1] * b[1], a[2] * b[2])

RDiv(a, b) == Frac(a[1] * b[2], a[2] * b[1])

RLe(a, b) == a[1] * b[2] <= b[1] * a[2]

RMaxOf(S) == CHOOSE x \in S : \A y \in S : RLe(y, x)

RMinOf(S) == CHOOSE x \in S : \A y \in S : RLe(x, y)

Vec(x, y, z) == <<R(x), R(y), R(z)>>

Undefined == <<>>

\* x || 1 : 0 and undefined give 1
OrOne(x) == IF x = Undefined \/ x = R(0) THEN R(1) ELSE x

ShapeTypes == {"box", "sphere", "cylinder", "cone", "torus", "icosahedron"}

Positions == {Vec(0, 0, 0), Vec(2, 2, 2)}

Scales == {Vec(1, 1, 1), Vec(-1, -1, -1)}

\* args?: number[] : left out, or radii, height and segment counts
ArgLists == {[present |-> FALSE, items |-> <<>>],
             [present |-> TRUE, items |-> <<R(1), R(2), R(6), R(8)>>]}

Parts == [type : ShapeTypes, position : Positions, scale : Scales, args : ArgLists]

\* the parts of a GeneratedModel
Models == UNION {[1..n -> Parts] : n \in 0..MaxParts}

\* part.args?.[i], from 0
ArgAt(part, i) ==
    IF part.args.present /\ i + 1 <= Len(part.args.items)
    THEN part.args.items[i + 1]
    ELSE Undefined

\* list[i], from 0: undefined past the end
ElemAt(list, i) == IF i + 1 <= Len(list) THEN list[i + 1] ELSE Undefined

\* part.scale?.[i], from 0; a part is a record of the properties it has
ScaleAt(part, i) ==
    IF "scale" \in DOMAIN part THEN ElemAt(part.scale, i) ELSE Undefined

\* x *= scaleFactor : undefined times a number is NaN
NaN == <<0, 0>>

Times(x, k) == IF x = Undefined \/ x = NaN THEN NaN ELSE RMul(x, k)

\* the half extents <<sizeX, sizeY, sizeZ>> the bounding box takes for a part
HalfExtents(part) ==
    LET sx == OrOne(ScaleAt(part, 0))
        sy == OrOne(ScaleAt(part, 1))
        sz == OrOne(ScaleAt(part, 2))
    IN  CASE part.type = "box" ->
                 <<RDiv(sx, R(2)), RDiv(sy, R(2)), RDiv(sz, R(2))>>
          [] part.type \in {"cylinder", "cone"} ->
                 LET h == OrOne(ArgAt(part, 2))
                     r == RMaxOf({OrOne(ArgAt(part, 0)), OrOne(ArgAt(part, 1))})
                 IN  <<r, RDiv(h, R(2)), r>>
          [] part.type \in {"sphere", "icosahedron"} ->
                 LET rad == OrOne(ArgAt(part, 0)) IN <<rad, rad, rad>>
          [] OTHER -> <<sx, sy, sz>>

\* <<maxX - minX, maxY - minY, maxZ - minZ>>, before the || 1
RawSpans(parts) ==
    LET size == [i \in DOMAIN parts |-> HalfExtents(parts[i])]
    IN  [axis \in 1..3 |->
            RSub(RMaxOf({RAdd(parts[i].position[axis], size[i][axis]) :
                            i \in DOMAIN parts}),
                 RMinOf({RSub(parts[i].position[axis], size[i][axis]) :
                            i \in DOMAIN parts}))]

\* maxDim = Math.max(sizeX, sizeY, sizeZ)
MaxDim(parts) ==
    LET spans == RawSpans(parts)
    IN  RMaxOf({OrOne(spans[axis]) : axis \in 1..3})

\* the args a kind has scaled, from 0
ScaledArgs(type) ==
    CASE type \in {"cylinder", "cone"} -> {0, 1, 2}
      [] type \in {"sphere", "icosahedron"} -> {0}
      [] type = "torus" -> {0, 1}
      [] OTHER -> {}

ScalePartEverything(part, k) ==
    [type     |-> part.type,
     position |-> [i \in 1..3 |-> RMul(part.position[i], k)],
     args     |-> [present |-> TRUE,
                   items |-> [i \in 1..Len(part.args.items) |->
                                 RMul(part.args.items[i], k)]],
     scale    |-> [i \in 1..3 |-> RMul(part.scale[i], k)]]

\* newScale: [...(part.scale || [1, 1, 1])], and for a box its entries 0 to
\* 2 times scaleFactor, which makes them exist
NewScale(part, k) ==
    LET copy == IF "scale" \in DOMAIN part THEN part.scale ELSE Vec(1, 1, 1)
        len  == IF Len(copy) > 3 THEN Len(copy) ELSE 3
    IN  IF part.type = "box"
        THEN [i \in 1..len |-> IF i <= 3 THEN Times(ElemAt(copy, i - 1), k)
                                          ELSE copy[i]]
        ELSE copy

\* newArgs: [...(part.args || [])], the entries of the kind that exist times
\* scaleFactor
NewArgs(part, k) ==
    [present |-> TRUE,
     items |-> [i \in 1..Len(part.args.items) |->
                   IF (i - 1) \in ScaledArgs(part.type)
                   THEN RMul(part.args.items[i], k)
                   ELSE part.args.items[i]]]

ScalePartWithRotation(part, k) ==
    [f \in DOMAIN part \cup {"position", "args", "scale"} |->
        CASE f = "position" -> [i \in 1..3 |-> RMul(part.position[i], k)]
          [] f = "args"     -> NewArgs(part, k)
          [] f = "scale"    -> NewScale(part, k)
          [] f = "rotation" -> [i \in 1..Len(part.rotation) |->
                                   RMul(part.rotation[i], k)]
          [] OTHER          -> part[f]]

\* the callback of model.parts.map: { ...part, position, args, scale }
ScalePart(part, k) ==
    [f \in DOMAIN part \cup {"position", "args", "scale"} |->
        CASE f = "position" -> [i \in 1..3 |-> RMul(part.position[i], k)]
          [] f = "args"     -> NewArgs(part, k)
          [] f = "scale"    -> NewScale(part, k)
          [] OTHER          -> part[f]]

normalizeModelData(parts) ==
    IF Len(parts) = 0 THEN parts
    ELSE LET maxDim      == MaxDim(parts)
             scaleFactor == RDiv(R(8), maxDim)
         IN  IF maxDim = R(0) THEN parts
             ELSE [i \in DOMAIN parts |-> ScalePart(parts[i], scaleFactor)]

NormInit ==
    /\ AppInit
    /\ viewState = [mode |-> "ISO", t |-> 0]
    /\ CameraInit
    /\ fnInput \in Models
    /\ fnOutput = <<>>

\* one call of normalizeModelData
NormalizeModel ==
    /\ fnOutput = <<>>
    /\ fnOutput' = [parts |-> normalizeModelData(fnInput)]
    /\ UNCHANGED <<appVars, log, viewState, cameraVars, viewCmds, fnInput>>

NormSpec == NormInit /\ [][NormalizeModel]_vars

\* ------------------------------------ normalizeModelData on a raw payload
\* The parsed payload is not checked against the schema: a part may come
\* without scale or rotation, or with vectors of another length.
NoProperty == [f \in {} |-> 0]

ScaleOptions == {NoProperty,
                 "scale" :> <<R(2), R(2)>>,
                 "scale" :> Vec(2, 2, 2),
                 "scale" :> <<R(2), R(2), R(2), R(2)>>}

RotationOptions == {NoProperty,
                    "rotation" :> <<R(0), R(1)>>,
                    "rotation" :> Vec(0, 1, 0)}

PayloadParts ==
    {[id |-> "part_01", type |-> t, position |-> Vec(0, 0, 0),
      args |-> [present |-> TRUE, items |-> <<R(2)>>],
      color |-> "#FF0000", description |-> "Leg"] @@ so @@ ro :
        t \in {"box", "sphere"}, so \in ScaleOptions, ro \in RotationOptions}

Payloads ==
    {[name |-> "Chair", parts |-> parts] :
        parts \in UNION {[1..n -> PayloadParts] : n \in 0..MaxParts}}

\* return { ...model, parts: normalizedParts }, or the model itself
normalizePayload(m) ==
    LET parts == normalizeModelData(m.parts)
    IN  IF parts = m.parts THEN m
        ELSE [f \in DOMAIN m |-> IF f = "parts" THEN parts ELSE m[f]]

PayloadInit ==
    /\ AppInit
    /\ viewState = [mode |-> "ISO", t |-> 0]
    /\ CameraInit
    /\ fnInput \in Payloads
    /\ fnOutput = <<>>

\* one call of normalizeModelData; it only reads the object it is given
NormalizePayload ==
    /\ fnOutput = <<>>
    /\ fnOutput' = [model |-> normalizePayload(fnInput)]
    /\ UNCHANGED <<appVars, log, viewState, cameraVars, viewCmds, fnInput>>

PayloadSpec == PayloadInit /\ [][NormalizePayload]_vars

\* ------------------------------------------- the build speed of a payload
SpeedInit ==
    /\ AppInit
    /\ viewState = [mode |-> "ISO", t |-> 0]
    /\ CameraInit
    /\ fnInput \in 0..MaxPartsLength
    /\ fnOutput = <<>>

\* lines 112 to 115 of handleGenerate for a payload of fnInput parts
DeriveSpeed ==
    /\ fnOutput = <<>>
    /\ LET partCount == PartCount([ref |-> 1, n |-> fnInput, list |-> TRUE])
       IN  fnOutput' = [partCount |-> partCount, speed |-> BuildSpeed(partCount)]
    /\ UNCHANGED <<appVars, log, viewState, cameraVars, viewCmds, fnInput>>

SpeedSpec == SpeedInit /\ [][DeriveSpeed]_vars

\* ----------------------------------------------------- CameraController
\* the effect of CameraController has not run for the last commit
CameraEffectPendingByMode ==
    \/ cameraDeps.viewState.mode # viewState.mode
    \/ cameraDeps.controls # controls

\* deps [viewState, camera, controls]: viewState is a new object per command
CameraEffectPending ==
    cameraDeps # [viewState |-> viewState, controls |-> controls]

\* the switch on viewState.mode
CameraOffset(mode) ==
    CASE mode = "TOP"    -> <<0, distance, 0>>
      [] mode = "BOTTOM" -> <<0, -distance, 0>>
      [] mode = "FRONT"  -> <<0, 0, distance>>
      [] mode = "SIDE"   -> <<distance, 0, 0>>
      [] OTHER           -> <<10, 10, 10>>

\* where the user can drag the camera and pan the target to
OrbitPositions == {<<3, 4, 12>>}

OrbitTargets == {Origin, <<1, 0, 0>>}

\* OrbitControls makeDefault stores itself as state.controls
ControlsReady ==
    /\ ~controls
    /\ ~CameraEffectPending
    /\ controls' = TRUE
    /\ UNCHANGED <<appVars, log, viewState, cameraPosition, cameraTarget, cameraDeps,
                   recomputes, viewCmds, fnVars>>

\* the effect of CameraController
CameraEffect ==
    /\ CameraEffectPending
    /\ cameraDeps' = [viewState |-> viewState, controls |-> controls]
    /\ IF ~controls
       THEN UNCHANGED <<cameraPosition, cameraTarget, recomputes>>
       ELSE /\ cameraPosition' = CameraOffset(viewState.mode)
            /\ cameraTarget' = Origin
            /\ recomputes' = recomputes + 1
    /\ UNCHANGED <<appVars, log, viewState, controls, viewCmds, fnVars>>

\* a click in the VIEW menu, once the effects of the last commit have run
ViewCommand(viewMode) ==
    /\ ~CameraEffectPending
    /\ viewState.t < MaxCameraCmds
    /\ ViewChange(viewMode)

\* the user drags the camera or pans the target with OrbitControls
Orbit(position, target) ==
    /\ controls
    /\ ~CameraEffectPending
    /\ <<cameraPosition, cameraTarget>> # <<position, target>>
    /\ cameraPosition' = position
    /\ cameraTarget' = target
    /\ UNCHANGED <<appVars, log, viewState, controls, cameraDeps, recomputes, viewCmds,
                   fnVars>>

ViewNext ==
    \/ ControlsReady
    \/ CameraEffect
    \/ \E v \in ViewModes : ViewCommand(v)
    \/ \E p \in OrbitPositions, g \in OrbitTargets : Orbit(p, g)

ViewSpec == Init /\ [][ViewNext]_vars

\* ---------------------------------------------------------------- claims
\* the reveal sequence of the current Model has finished
RevealDone ==
    /\ HasModel
    /\ ~PendingEffects
    /\ visiblePartsCount = model.n
    /\ revealTimer = 0

\* a generation without a credential fails in the task that submitted it
CredentialFailure == \E p \in Prompts : HandleSubmit(p, FALSE)

\* a pending generation resolves with a failure or with a payload whose
\* parts is not a usable list
UnusableResponse ==
    \E req \in pending, o \in FailKinds \cup {"partsFalsy"}, n \in 0..MaxParts :
        Resolve(req, o, n)

\* C1: while a Model with N parts stays set, the visible parts are exactly the
\* index prefix below the reveal count, the count equals the number of reveal
\* intervals elapsed since the Model was taken up, and after N intervals all
\* N parts are visible.
C1_RevealOrder ==
    (HasModel /\ model.list) =>
        /\ VisibleParts = (0..(visiblePartsCount - 1)) \cap (0..(model.n - 1))
        /\ ~ModelJustReplaced => visiblePartsCount = elapsed
        /\ (~ModelJustReplaced /\ elapsed = model.n) => VisibleParts = 0..(model.n - 1)

C1_Witness ==
    /\ HasModel
    /\ model.n >= 2
    /\ elapsed = model.n
    /\ VisibleParts = 0..(model.n - 1)

\* C2: at most one generation request is in flight at any time.
C2_SingleInFlight == Cardinality(pending) <= 1

\* C3: once a generation request has resolved, no progress ticker is armed
\* (so none can tick) until another request is started.
C3_TickerCancelledOnResolve == resolvedSinceStart => DOMAIN intervals = {}

C3_Witness ==
    /\ resolvedSinceStart
    /\ intervalRef # 0
    /\ generationState = CompleteState
    /\ intervals = <<>>

\* C4: at most one progress ticker is armed in any reachable state, also when
\* a request is started while an earlier one is still pending.
C4_SingleTicker == Cardinality(DOMAIN intervals) <= 1

C4_Witness ==
    /\ Cardinality(pending) = 2
    /\ DOMAIN intervals = {intervalRef}
    /\ intervalRef = 2

\* C5: in the commit in which a new Model replaces the previous one, no part
\* of the new Model is shown as revealed.
C5_NoCarryOver == (HasModel /\ model.list /\ ModelJustReplaced) => VisibleParts = {}

\* C6: whenever a Model is set, 0 <= revealedCount <= parts.length.
C6_CountWithinParts ==
    (HasModel /\ model.list) => (0 <= visiblePartsCount /\ visiblePartsCount <= model.n)

\* C7: while the Model stays the same the reveal sequence finishes (the count
\* reaches parts.length with no reveal timer armed), and once finished it
\* stays finished for as long as the Model and the build speed are unchanged.
C7_RevealTerminates ==
    /\ \A r \in 1..MaxRequests :
           (model.ref = r /\ model.list) ~> (model.ref # r \/ RevealDone)
    /\ [][(RevealDone /\ model' = model /\ buildingSpeed' = buildingSpeed)
              => RevealDone']_vars

C7_Witness ==
    /\ RevealDone
    /\ model.n >= 2
    /\ elapsed = model.n

\* C8: every failed generation leaves no progress ticker armed, the terminal
\* error status (isGenerating false, progress 0, status ERROR) and no Model.
C8_FailureEndsInError ==
    [][(CredentialFailure \/ UnusableResponse)
          => (intervals' = <<>> /\ generationState' = ErrorState /\ model' = NoModel)]_vars

\* C9: every resolution of a request leaves isGenerating false, and
\* isGenerating is false whenever no request is pending.
C9_Finalized ==
    /\ [](pending = {} => ~generationState.isGenerating)
    /\ [][(pending' # pending /\ pending' \subseteq pending)
              => ~generationState'.isGenerating]_vars

C9_Witness ==
    /\ pending = {}
    /\ resolvedSinceStart
    /\ intervalRef = 2
    /\ generationState = ErrorState

\* C10: a generation that fails for want of the credential leaves the Model
\* and the build speed as they were before the submission.
C10_CredentialFailureKeepsModel ==
    [][CredentialFailure => (model' = model /\ buildingSpeed' = buildingSpeed)]_vars


\* C11: a generation that succeeds makes exactly one record call, with the
\* submitted prompt, the name of the Model and the number of parts of the
\* Model; a generation that fails makes none.
C11_OneRecordPerSuccess ==
    [][/\ \A req \in pending, o \in Outcomes \ {"partsFalsy"}, n \in 0..MaxParts :
              Resolve(req, o, n) =>
                  log' = IF o = "model"
                         THEN <<[prompt |-> req.prompt,
                                 modelName |-> req.id,
                                 partCount |-> n]>>
                         ELSE <<>>
       /\ CredentialFailure => log' = <<>>]_vars

\* the text has neither brace
BraceFree(t) == \A i \in 1..Len(t) : t[i] \notin {"{", "}"}

\* C12: for every response text that holds no "{" and no "}", the generation
\* fails with the interpretation error and its user-facing message, and no
\* Model is produced.
C12_BraceFreeIsInterpretationError ==
    (fnOutput # <<>> /\ BraceFree(fnInput)) =>
        /\ fnOutput.outcome = "unparseable"
        /\ fnOutput.message =
               "Could not interpret the model data. The design was too abstract."
        /\ fnOutput.model = NoModel

\* only white space lies between positions a and b
OnlyWsBetween(t, a, b) == \A r \in (a + 1)..(b - 1) : t[r] = "w"

\* <<i, b, e>>: a fence at i, then the optional tag and white space, an
\* interior that runs from the "{" at b to the "}" at e, then white space
\* and a fence
FencedBlocks(t) ==
    {blk \in {i \in 1..Len(t) : t[i] = "F"} \X {b \in 1..Len(t) : t[b] = "{"}
                \X {e \in 1..Len(t) : t[e] = "}"} :
        /\ blk[1] < blk[2] /\ blk[2] < blk[3]
        /\ \/ OnlyWsBetween(t, blk[1], blk[2])
           \/ /\ blk[1] + 1 < blk[2]
              /\ t[blk[1] + 1] = "j"
              /\ OnlyWsBetween(t, blk[1] + 1, blk[2])
        /\ \E f \in (blk[3] + 1)..Len(t) :
               t[f] = "F" /\ OnlyWsBetween(t, blk[3], f)}

\* the positions of a..b that hold a comma with only white space between it
\* and a closing brace or bracket inside a..b
TrailingCommas(t, a, b) ==
    {p \in a..b : /\ t[p] = ","
                  /\ \E q \in (p + 1)..b : t[q] \in Closers /\ OnlyWsBetween(t, p, q)}

\* the tokens of t at the positions S, in their order
Restrict(t, S) ==
    [k \in 1..Cardinality(S) |->
        t[CHOOSE p \in S : Cardinality({r \in S : r < p}) = k - 1]]

\* C13: when the text has a fenced block that holds structured data, the
\* interior of the first such block is what is parsed, whatever braces lie
\* outside it; only without such a block is it the span from the first "{" to
\* the last "}"; either way the commas right before a closing brace or
\* bracket are removed before the parse.
C13_ExtractionOrder ==
    fnOutput # <<>> =>
        LET t      == fnInput
            out    == fnOutput.parse
            blocks == FencedBlocks(t)
        IN  /\ blocks # {} =>
                  /\ out.source = "fence"
                  /\ \E blk \in blocks :
                        /\ out.from = blk[2] /\ out.to = blk[3]
                        /\ \A other \in blocks :
                              \/ blk[1] < other[1]
                              \/ blk[1] = other[1] /\ blk[3] <= other[3]
            /\ (blocks = {} /\
                \E a, b \in 1..Len(t) : a < b /\ t[a] = "{" /\ t[b] = "}") =>
                  /\ out.source = "span"
                  /\ t[out.from] = "{" /\ \A i \in 1..(out.from - 1) : t[i] # "{"
                  /\ t[out.to] = "}" /\ \A i \in (out.to + 1)..Len(t) : t[i] # "}"
            /\ out.cleanText =
                  Restrict(t, (out.from..out.to) \ TrailingCommas(t, out.from, out.to))
            /\ out.value = JSONParse(out.cleanText)

\* a fenced block was parsed although the braces of the text span more than
\* its interior
C13_Witness ==
    /\ fnOutput # <<>>
    /\ fnOutput.parse.source = "fence"
    /\ BraceSpan(fnInput) # <<fnOutput.parse.from, fnOutput.parse.to>>

\* C14: for every Model with at least one part, of any mix of the six kinds,
\* the bounding box of the normalized Model, computed by the same half-extent
\* rules, has a largest axis span of 8.
C14_NormalizedMaxDimIsEight ==
    (fnOutput # <<>> /\ Len(fnInput) > 0) => MaxDim(fnOutput.parts) = R(8)

\* all three axis spans of the bounding box of the parts are 0
AllSpansZero(parts) == RawSpans(parts) = <<R(0), R(0), R(0)>>

\* C15: a Model with no parts, or one whose three bounding-box spans are all
\* 0, comes back from normalization as it went in, and nothing is divided
\* by zero.
C15_DegenerateUnchanged ==
    (fnOutput # <<>> /\ (Len(fnInput) = 0 \/ AllSpansZero(fnInput))) =>
        fnOutput.parts = fnInput

\* C16: with k = 8 / maxDim, normalization multiplies every position by k;
\* for a box the scale by k, args untouched; for a sphere or icosahedron
\* args[0] by k, scale untouched; for a cylinder or cone args[0..2] by k,
\* args[3] and scale untouched; for a torus args[0..1] by k, args[2..3] and
\* scale untouched.
C16_PerKindScaling ==
    (fnOutput # <<>> /\ Len(fnInput) > 0) =>
        LET k == RDiv(R(8), MaxDim(fnInput))
        IN  /\ Len(fnOutput.parts) = Len(fnInput)
            /\ \A i \in DOMAIN fnInput :
                  LET old == fnInput[i]
                      new == fnOutput.parts[i]
                      times(a) == new.args.items[a + 1] = RMul(old.args.items[a + 1], k)
                      same(a)  == new.args.items[a + 1] = old.args.items[a + 1]
                  IN  /\ new.type = old.type
                      /\ \A c \in 1..3 : new.position[c] = RMul(old.position[c], k)
                      /\ Len(new.args.items) = Len(old.args.items)
                      /\ \A a \in 0..(Len(old.args.items) - 1) :
                            CASE old.type = "box" -> same(a)
                              [] old.type \in {"sphere", "icosahedron"} ->
                                     IF a = 0 THEN times(a) ELSE same(a)
                              [] old.type \in {"cylinder", "cone"} ->
                                     IF a <= 2 THEN times(a) ELSE same(a)
                              [] old.type = "torus" ->
                                     IF a <= 1 THEN times(a) ELSE same(a)
                      /\ \A c \in 1..3 :
                            new.scale[c] = IF old.type = "box"
                                           THEN RMul(old.scale[c], k)
                                           ELSE old.scale[c]

\* a Model of a cylinder and a torus that have all four args was rescaled
C16_Witness ==
    /\ fnOutput # <<>>
    /\ \E i, j \in DOMAIN fnInput :
          /\ fnInput[i].type = "cylinder" /\ Len(fnInput[i].args.items) = 4
          /\ fnInput[j].type = "torus" /\ Len(fnInput[j].args.items) = 4
    /\ fnOutput.parts # fnInput

Max(a, b) == IF a >= b THEN a ELSE b

\* C17 as stated: with partCount = max(1, parts.length) the build speed is 100
\* when partCount = 1 and otherwise exactly min(500, 2000 / partCount), for
\* every part count.
C17_SpeedIsExactQuotient ==
    fnOutput # <<>> =>
        /\ fnOutput.partCount = Max(1, fnInput)
        /\ IF fnOutput.partCount = 1 THEN fnOutput.speed = 100
           ELSE IF 500 * fnOutput.partCount <= 2000 THEN fnOutput.speed = 500
           ELSE fnOutput.speed * fnOutput.partCount = 2000

\* C17, amended: with partCount = max(1, parts.length) the build speed is 100
\* when partCount = 1 and otherwise min(500, 2000 / partCount) rounded down to
\* a whole number of milliseconds (1 -> 100, 4 -> 500, 7 -> 285, 20 -> 100,
\* 40 -> 50).
C17_SpeedIsFlooredQuotient ==
    fnOutput # <<>> =>
        /\ fnOutput.partCount = Max(1, fnInput)
        /\ IF fnOutput.partCount = 1 THEN fnOutput.speed = 100
           ELSE IF 500 * fnOutput.partCount <= 2000 THEN fnOutput.speed = 500
           ELSE /\ fnOutput.speed * fnOutput.partCount <= 2000
                /\ 2000 < (fnOutput.speed + 1) * fnOutput.partCount
        /\ fnInput = 1 => fnOutput.speed = 100
        /\ fnInput = 4 => fnOutput.speed = 500
        /\ fnInput = 20 => fnOutput.speed = 100
        /\ fnInput = 40 => fnOutput.speed = 50

\* the speed of a payload whose part count does not divide 2000
C17_Witness == fnOutput # <<>> /\ fnInput = 7 /\ fnOutput.speed = 285

\* C18 as stated: for every part count the build speed is at least 100 and
\* at most 500.
C18_SpeedWithinFloorAndCeiling ==
    fnOutput # <<>> => fnOutput.speed >= 100 /\ fnOutput.speed <= 500

\* C18, amended: for every part count the build speed is at most 500, and it
\* is at least 100 exactly when the part count is at most 20.
C18_SpeedCeilingAndFloorUpTo20 ==
    fnOutput # <<>> =>
        /\ fnOutput.speed <= 500
        /\ fnOutput.speed >= 100 <=> fnOutput.partCount <= 20

\* the speed of a payload of 40 parts
C18_Witness == fnOutput # <<>> /\ fnInput = 40 /\ fnOutput.speed = 50

\* C19 as stated: every view command triggers a camera recompute, also one
\* that selects the mode already active, and the number of recomputes equals
\* the number of view commands issued since the camera controls exist.
C19_RecomputesEqualCommands ==
    (controls /\ ~CameraEffectPending) => recomputes = Len(viewCmds)

\* C19, amended: every view command issued since the camera controls exist
\* triggers exactly one camera recompute, also one that selects the mode
\* already active; together with the one recompute that runs when the
\* controls become available, the recomputes number one more than those
\* view commands.
C19_OneRecomputePerCommand ==
    /\ ~controls => recomputes = 0 /\ viewCmds = <<>>
    /\ (controls /\ CameraEffectPending) => recomputes = Len(viewCmds)
    /\ (controls /\ ~CameraEffectPending) => recomputes = Len(viewCmds) + 1

\* TOP was selected twice in a row and the camera was recomputed for both
C19_Witness ==
    /\ controls
    /\ ~CameraEffectPending
    /\ viewCmds = <<"TOP", "TOP">>
    /\ recomputes = 3

\* the square of the distance of a point from the origin
Dist2(p) == p[1] * p[1] + p[2] * p[2] + p[3] * p[3]

\* C20: a camera recompute puts the camera on +Y for TOP, -Y for BOTTOM, +Z
\* for FRONT, +X for SIDE and at equal x, y and z for ISO, every time at the
\* one constant distance from the origin, and sets the look-at target to
\* the origin.
C20_OffsetsAtOneDistance ==
    [][(controls /\ CameraEffect) =>
          LET p == cameraPosition'
              m == viewState.mode
          IN  /\ m = "TOP"    => p[1] = 0 /\ p[2] > 0 /\ p[3] = 0
              /\ m = "BOTTOM" => p[1] = 0 /\ p[2] < 0 /\ p[3] = 0
              /\ m = "FRONT"  => p[1] = 0 /\ p[2] = 0 /\ p[3] > 0
              /\ m = "SIDE"   => p[1] > 0 /\ p[2] = 0 /\ p[3] = 0
              /\ m = "ISO"    => p[1] = p[2] /\ p[2] = p[3]
              /\ Dist2(p) = distance * distance
              /\ cameraTarget' = Origin]_vars

\* C21: after the normalization of a Model that has parts, position,
\* rotation and scale of every part have exactly 3 components, whatever the
\* payload supplied: no scale or rotation, or vectors of another length.
C21_ThreeComponents ==
    (fnOutput # <<>> /\ Len(fnInput.parts) > 0) =>
        \A i \in DOMAIN fnOutput.model.parts :
            \A f \in {"position", "rotation", "scale"} :
                /\ f \in DOMAIN fnOutput.model.parts[i]
                /\ Len(fnOutput.model.parts[i][f]) = 3

\* the properties of a part that normalization has no business with
KeptProperties == {"id", "type", "rotation", "color", "description"}

\* C26: normalization keeps the number and the order of the parts, the id,
\* kind, rotation, color and description of every part and the name of the
\* Model, and leaves the Model object it was given as it was.
C26_GeometryOnly ==
    [][NormalizePayload =>
          LET old == fnInput
              new == fnOutput'.model
          IN  /\ fnInput' = old
              /\ new.name = old.name
              /\ Len(new.parts) = Len(old.parts)
              /\ \A i \in DOMAIN old.parts :
                    \A f \in KeptProperties :
                        /\ f \in DOMAIN new.parts[i] <=> f \in DOMAIN old.parts[i]
                        /\ f \in DOMAIN old.parts[i] =>
                               new.parts[i][f] = old.parts[i][f]]_vars

\* a Model of two parts, one of them with a rotation, was rescaled
C26_Witness ==
    /\ fnOutput # <<>>
    /\ fnInput \in Payloads
    /\ Len(fnInput.parts) = 2
    /\ "rotation" \in DOMAIN fnInput.parts[1]
    /\ fnInput.parts[1].rotation = Vec(0, 1, 0)
    /\ fnOutput.model.parts # fnInput.parts

\* C22: while a generation request is in flight, no action other than that
\* request's start, progress ticks and completion changes GenerationStatus:
\* not Clear Scene, not an STL export or its delayed restore, not a view
\* change, not the completion of another request.
C22_StatusOwnedByRequest ==
    [][(/\ pending # {}
        /\ \/ HandleClearScene
           \/ HandleExportSTL
           \/ ExportRestore
           \/ \E v \in ViewModes : HandleViewChange(v)
           \/ \E req \in pending, o \in Outcomes, n \in 0..MaxParts :
                 Resolve(req, o, n) /\ pending' # {})
       => generationState' = generationState]_vars

\* the percentages GenerationStatus may show
ProgressValues == {0, 100} \cup {steps[i].pct : i \in DOMAIN steps}

\* C24: the progress ticks of a request go through the phase list in order,
\* each phase at most once and none after the fourth; and as long as a
\* request is in flight the progress never decreases and is one of 0, 15,
\* 35, 55, 85, 100.
C24_ProgressMonotone ==
    [][/\ \A id \in DOMAIN intervals :
              ProgressTick(id) =>
                  \/ generationState' = generationState
                  \/ /\ generationState'.progress > generationState.progress
                     /\ \E i \in DOMAIN steps :
                           /\ generationState'.progress = steps[i].pct
                           /\ generationState'.status = steps[i].msg
       /\ (\E req \in pending : req \in pending') =>
              /\ generationState'.progress >= generationState.progress
              /\ generationState'.progress \in ProgressValues]_vars

\* C27: whenever isGenerating is true the Model is unset, under every
\* interleaving of submissions, Clear Scene, exports and responses.
C27_GeneratingHidesModel == generationState.isGenerating => model = NoModel

\* a generation is flagged in progress after an earlier one had installed
\* its Model
C27_Witness ==
    /\ generationState.isGenerating
    /\ buildingSpeed # InitialBuildingSpeed
    /\ model = NoModel

\* C28: the response of a request that a later submission has superseded,
\* or that was pending when Clear Scene was invoked, never installs its
\* Model.
C28_StaleResponseDropped ==
    [][\A req \in pending, o \in Outcomes, n \in 0..MaxParts :
          (/\ Resolve(req, o, n)
           /\ \/ req.id # nextReq - 1
              \/ generationState.status = "IDLE")
          => model' = model]_vars

\* C29: in every reachable state an armed progress ticker implies that
\* isGenerating is true.
C29_TickerOnlyWhileGenerating ==
    DOMAIN intervals # {} => generationState.isGenerating

\* C23: the reveal timer is one-shot and re-armed with the build speed current
\* at arming time. The reveal count changes only by +1 when the timer expires
\* (which disarms it) or to 0 once the Model has been replaced; a timer is
\* armed only with the current build speed, and is armed with it whenever the
\* effects have run and parts remain to be revealed; and a change of the build
\* speed leaves the reveal count, hence the set of revealed indices, as it was.
C23_OneShotRearmedAtCurrentSpeed ==
    [][~crashed =>
        /\ visiblePartsCount' # visiblePartsCount =>
              \/ /\ revealTimer # 0
                 /\ revealTimer' = 0
                 /\ visiblePartsCount' = visiblePartsCount + 1
              \/ /\ ModelJustReplaced
                 /\ visiblePartsCount' = 0
        /\ (revealTimer' # revealTimer /\ revealTimer' # 0) =>
              revealTimer' = buildingSpeed'
        /\ (~PendingEffects' /\ ~crashed' /\ HasModel' /\ model'.list
                /\ visiblePartsCount' < model'.n) =>
              revealTimer' = buildingSpeed'
        /\ buildingSpeed' # buildingSpeed =>
              /\ visiblePartsCount' = visiblePartsCount
              /\ {i \in 0..(MaxParts - 1) : IsVisible(i, visiblePartsCount')}
                    = {i \in 0..(MaxParts - 1) : IsVisible(i, visiblePartsCount)}
       ]_vars

\* the build speed has changed while a reveal is under way with its timer
\* armed at the previous speed
C23_Witness ==
    /\ HasModel
    /\ visiblePartsCount >= 1
    /\ revealTimer # 0
    /\ revealTimer # buildingSpeed
    /\ effectDeps.speed # buildingSpeed

\* C25: for every payload of N >= 1 parts, N times the derived build speed is
\* at most 2000 milliseconds.
C25_AssemblyTimeBounded ==
    (fnOutput # <<>> /\ fnInput >= 1) => fnInput * fnOutput.speed <= SpeedBudget

\* seven parts revealed at 285 ms each
C25_Witness ==
    /\ fnOutput # <<>>
    /\ fnInput = 7
    /\ fnInput * fnOutput.speed = 1995

============================================================================
